---- MODULE Spec2Model ----
(***************************************************************************)
(* Model of ChatRequestBuilder::build                                      *)
(* (codex-rs/codex-api/src/requests/chat.rs): the conversion of a history  *)
(* of ResponseItems into the Chat Completions payload.                     *)
(*                                                                         *)
(* Conventions.  Positions are 1-based here (Rust position p is p+1).      *)
(* A String is a sequence of tokens, so push_str is \o; the token " " is   *)
(* whitespace and every other token is not, so trim().is_empty() is        *)
(* "every token is whitespace".  An Option<T> is a sequence of at most one *)
(* T: None is <<>>, Some(x) is <<x>>.  A serde_json object is a function   *)
(* from its keys to its values.                                            *)
(***************************************************************************)
EXTENDS Integers, Sequences, FiniteSets, TLC

VARIABLES
    input,                      \* self.input
    enable_reasoning,           \* self.enable_reasoning
    pc,                         \* position of build() in its body
    idx,                        \* loop index of the running pass
    last_emitted_role,          \* Option<&str>
    last_user_index,            \* Option<usize>
    reasoning_by_anchor_index,  \* HashMap<usize, ReasoningAttachment>
    absorbed,                   \* per anchor, the Reasoning positions merged into it, in order
    last_assistant_text,        \* Option<String>
    messages,                   \* Vec<Value>
    origin,                     \* per wire message, the history position that pushed it (0: system)
    payload                     \* Option of the request body: None until built

vars == <<input, enable_reasoning, pc, idx, last_emitted_role, last_user_index,
          reasoning_by_anchor_index, absorbed, last_assistant_text, messages,
          origin, payload>>

\* Longest history of the anchoring family of inputs.
MaxLen == 4
\* Longest history of the families that vary the item kinds and the reasoning tags.
MaxLenWide == 3

None == <<>>
Some(x) == <<x>>
IsSome(o) == Len(o) = 1
Unwrap(o) == o[1]

----------------------------------------------------------------------------
(* Strings *)

Space == " "

\* str::trim().is_empty()
TrimIsEmpty(s) == \A i \in 1..Len(s) : s[i] = Space

----------------------------------------------------------------------------
(* ResponseItem and its parts *)

InputText(t)  == [type |-> "input_text",  text |-> t]
OutputText(t) == [type |-> "output_text", text |-> t]
InputImage(u) == [type |-> "input_image", image_url |-> u]

Message(role, content) == [kind |-> "Message", role |-> role, content |-> content]
FunctionCall(name, arguments, call_id) ==
    [kind |-> "FunctionCall", name |-> name, arguments |-> arguments, call_id |-> call_id]
LocalShellCall(id, status, action) ==
    [kind |-> "LocalShellCall", id |-> id, status |-> status, action |-> action]
\* output: [content: String, content_items: Option<Vec<FunctionCallOutputContentItem>>]
FunctionCallOutput(call_id, output) ==
    [kind |-> "FunctionCallOutput", call_id |-> call_id, output |-> output]
CustomToolCall(id, name, inp) ==
    [kind |-> "CustomToolCall", id |-> id, name |-> name, input |-> inp]
CustomToolCallOutput(call_id, output) ==
    [kind |-> "CustomToolCallOutput", call_id |-> call_id, output |-> output]
\* content: Option of the list of text segments; details: Option<Value>;
\* source: Option<ReasoningSource>
Reasoning(content, details, source) ==
    [kind |-> "Reasoning", content |-> content, reasoning_details |-> details,
     reasoning_source |-> source]
WebSearchCall == [kind |-> "WebSearchCall"]
GhostSnapshot == [kind |-> "GhostSnapshot"]
Compaction    == [kind |-> "Compaction"]
Other         == [kind |-> "Other"]

IsAssistantMsg(it) == it.kind = "Message" /\ it.role = "assistant"
IsUserMsg(it)      == it.kind = "Message" /\ it.role = "user"
IsReasoning(it)    == it.kind = "Reasoning"

----------------------------------------------------------------------------
(* JSON values: a string, null or an array, tagged with its type *)

JStr(t) == [j |-> "string", v |-> t]
JArr(a) == [j |-> "array",  v |-> a]
JNull   == [j |-> "null"]

\* serde_json::Map::insert: the new value replaces an old one under the key
Insert(obj, key, val) == (key :> val) @@ obj

----------------------------------------------------------------------------
(* Role Tracker and last user turn *)

\* the match of the first loop: the role an item sets, None when it sets none
item_role(item) ==
    CASE item.kind = "Message" -> Some(item.role)
      [] item.kind \in {"FunctionCall", "LocalShellCall"} -> Some("assistant")
      [] item.kind = "FunctionCallOutput" -> Some("tool")
      [] OTHER -> None

\* last_emitted_role after the first loop over inp
RECURSIVE LastEmittedRole(_)
LastEmittedRole(inp) ==
    IF inp = <<>> THEN None
    ELSE LET r == item_role(inp[Len(inp)])
         IN  IF IsSome(r) THEN r ELSE LastEmittedRole(SubSeq(inp, 1, Len(inp) - 1))

\* last_user_index after the second loop over inp
LastUserIndex(inp) ==
    LET users == {i \in 1..Len(inp) : IsUserMsg(inp[i])}
    IN  IF users = {} THEN None
        ELSE Some(CHOOSE i \in users : \A k \in users : k <= i)

----------------------------------------------------------------------------
(* Reasoning Resolver *)

RECURSIVE Concat(_)
\* the push_str loop over a list of strings
Concat(segments) ==
    IF segments = <<>> THEN <<>> ELSE Head(segments) \o Concat(Tail(segments))

\* the text of a Reasoning item: its segments joined, empty when content is None
reasoning_text(item) ==
    IF IsSome(item.content) THEN Concat(Unwrap(item.content)) ELSE <<>>

\* whether the resolver skips the Reasoning item as holding nothing to attach
nothing_to_attach(item) ==
    TrimIsEmpty(reasoning_text(item)) /\ item.reasoning_details = None

\* the ReasoningAttachment built from a Reasoning item
new_attachment(item) ==
    [text    |-> reasoning_text(item),
     details |-> item.reasoning_details,
     source  |-> IF IsSome(item.reasoning_source) THEN item.reasoning_source
                 ELSE IF IsSome(item.reasoning_details) THEN Some("ReasoningDetails")
                 ELSE None]

reasoning_source_rank(source) ==
    CASE source = "Reasoning" -> 0
      [] source = "ReasoningContent" -> 1
      [] source = "ReasoningDetails" -> 2


\* variant: the incoming tag always replaces the existing one
merge_reasoning_source_last_wins(target, incoming) ==
    IF incoming = None THEN target ELSE incoming

merge_reasoning_source(target, incoming) ==
    IF incoming = None THEN target
    ELSE LET replace ==
                 IF target = None THEN TRUE
                 ELSE reasoning_source_rank(Unwrap(incoming))
                          > reasoning_source_rank(Unwrap(target))
         IN  IF replace THEN incoming ELSE target

merge_reasoning_attachment(target, incoming) ==
    [text    |-> IF incoming.text # <<>> THEN target.text \o incoming.text ELSE target.text,
     details |-> IF IsSome(incoming.details) THEN incoming.details ELSE target.details,
     source  |-> merge_reasoning_source(target.source, incoming.source)]


\* variant: the resolver looks at every position, whatever the last turn
examined_everywhere(role, u_idx, i) == TRUE

\* whether the resolver looks at position i at all: the tracked role is not
\* user, and i lies after the last user Message
examined(role, u_idx, i) ==
    /\ role # Some("user")
    /\ ~(IsSome(u_idx) /\ i <= Unwrap(u_idx))


\* variant: the following item is tried before the preceding assistant Message
anchor_index_following_first(inp, i) ==
    IF i + 1 <= Len(inp)
       /\ (\/ inp[i + 1].kind \in {"FunctionCall", "LocalShellCall"}
           \/ IsAssistantMsg(inp[i + 1]))
    THEN Some(i + 1)
    ELSE IF i > 1 /\ IsAssistantMsg(inp[i - 1]) THEN Some(i - 1)
    ELSE None

\* variant: a following FunctionCall or LocalShellCall takes the reasoning
\* even when an assistant Message precedes
anchor_index_call_first(inp, i) ==
    IF i + 1 <= Len(inp) /\ inp[i + 1].kind \in {"FunctionCall", "LocalShellCall"}
    THEN Some(i + 1)
    ELSE IF i > 1 /\ IsAssistantMsg(inp[i - 1]) THEN Some(i - 1)
    ELSE IF i + 1 <= Len(inp) /\ IsAssistantMsg(inp[i + 1]) THEN Some(i + 1)
    ELSE None

\* variant: the preceding assistant Message is looked for past the Reasoning
\* items that lie between
anchor_index_lookback(inp, i) ==
    LET before == {k \in 1..(i - 1) : ~IsReasoning(inp[k])}
        near   == IF before = {} THEN 0 ELSE CHOOSE k \in before : \A m \in before : m <= k
    IN  IF near > 0 /\ IsAssistantMsg(inp[near]) THEN Some(near)
        ELSE IF i + 1 <= Len(inp)
                /\ (\/ inp[i + 1].kind \in {"FunctionCall", "LocalShellCall"}
                    \/ IsAssistantMsg(inp[i + 1]))
             THEN Some(i + 1)
        ELSE None

\* the position a Reasoning item at i attaches to, None when it has no anchor
anchor_index(inp, i) ==
    IF i > 1 /\ IsAssistantMsg(inp[i - 1]) THEN Some(i - 1)
    ELSE IF i + 1 <= Len(inp)
            /\ (\/ inp[i + 1].kind \in {"FunctionCall", "LocalShellCall"}
                \/ IsAssistantMsg(inp[i + 1]))
         THEN Some(i + 1)
    ELSE None

\* entry(a).and_modify(merge).or_insert(attachment)
entry_merge(map, a, attachment) ==
    IF a \in DOMAIN map
    THEN [map EXCEPT ![a] = merge_reasoning_attachment(@, attachment)]
    ELSE (a :> attachment) @@ map

----------------------------------------------------------------------------
(* Message Assembler *)

RECURSIVE message_text(_)
\* the text of a Message: its InputText and OutputText parts joined
message_text(content) ==
    IF content = <<>> THEN <<>>
    ELSE LET c == Head(content)
         IN  (IF c.type = "input_image" THEN <<>> ELSE c.text)
                 \o message_text(Tail(content))

\* the items vector built from a Message's parts
message_items(content) ==
    [k \in 1..Len(content) |->
        IF content[k].type = "input_image"
        THEN [type |-> "image_url", image_url |-> [url |-> content[k].image_url]]
        ELSE [type |-> "text", text |-> content[k].text]]

saw_image(content) == \E k \in 1..Len(content) : content[k].type = "input_image"

\* whether an assistant Message repeats the last emitted assistant text
is_duplicate(item, last_text) ==
    IsAssistantMsg(item) /\ last_text = Some(message_text(item.content))


\* variant: a user Message starts the duplicate tracking afresh
next_last_assistant_text_per_turn(item, last_text) ==
    IF IsUserMsg(item) THEN None
    ELSE IF IsAssistantMsg(item) /\ ~is_duplicate(item, last_text)
    THEN Some(message_text(item.content))
    ELSE last_text

\* last_assistant_text after the item at hand
next_last_assistant_text(item, last_text) ==
    IF IsAssistantMsg(item) /\ ~is_duplicate(item, last_text)
    THEN Some(message_text(item.content))
    ELSE last_text

attach_reasoning_fields(obj, reasoning) ==
    IF IsSome(reasoning.details)
    THEN Insert(obj, "reasoning_details", Unwrap(reasoning.details))
    ELSE IF TrimIsEmpty(reasoning.text) THEN obj
    ELSE LET field == IF reasoning.source = Some("ReasoningContent")
                      THEN "reasoning_content" ELSE "reasoning"
         IN  Insert(obj, field, JStr(reasoning.text))

\* the fold of the attachment anchored at position i, if there is one
fold_at(obj, map, i) ==
    IF i \in DOMAIN map THEN attach_reasoning_fields(obj, map[i]) ELSE obj

message_wire(item, map, i) ==
    LET text == message_text(item.content)
        content_value ==
            IF item.role = "assistant" THEN JStr(text)
            ELSE IF saw_image(item.content) THEN JArr(message_items(item.content))
            ELSE JStr(text)
        msg == [role |-> item.role, content |-> content_value]
    IN  IF item.role = "assistant" THEN fold_at(msg, map, i) ELSE msg

function_call_wire(item, map, i) ==
    fold_at([role |-> "assistant", content |-> JNull,
             tool_calls |-> <<[id |-> item.call_id, type |-> "function",
                               function |-> [name |-> item.name,
                                             arguments |-> item.arguments]]>>],
            map, i)

local_shell_call_wire(item, map, i) ==
    fold_at([role |-> "assistant", content |-> JNull,
             tool_calls |-> <<[id |-> IF IsSome(item.id) THEN Unwrap(item.id) ELSE "",
                               type |-> "local_shell_call",
                               status |-> item.status, action |-> item.action]>>],
            map, i)

function_call_output_wire(item) ==
    LET items == item.output.content_items
        content_value ==
            IF IsSome(items)
            THEN JArr([k \in 1..Len(Unwrap(items)) |->
                        IF Unwrap(items)[k].type = "input_image"
                        THEN [type |-> "image_url",
                              image_url |-> [url |-> Unwrap(items)[k].image_url]]
                        ELSE [type |-> "text", text |-> Unwrap(items)[k].text]])
            ELSE JStr(item.output.content)
    IN  [role |-> "tool", tool_call_id |-> item.call_id, content |-> content_value]

custom_tool_call_wire(item) ==
    [role |-> "assistant", content |-> JNull,
     tool_calls |-> <<[id |-> item.id, type |-> "custom",
                       custom |-> [name |-> item.name, input |-> item.input]]>>]

custom_tool_call_output_wire(item) ==
    [role |-> "tool", tool_call_id |-> item.call_id, content |-> JStr(item.output)]


\* variant: a Message with an image pushes one wire message per part
pushed_per_part(item, map, i, last_text) ==
    CASE item.kind = "Message" ->
            IF is_duplicate(item, last_text) THEN <<>>
            ELSE IF item.role # "assistant" /\ saw_image(item.content)
            THEN [k \in 1..Len(item.content) |->
                    [role |-> item.role,
                     content |-> JArr(<<message_items(item.content)[k]>>)]]
            ELSE <<message_wire(item, map, i)>>
      [] item.kind = "FunctionCall" -> <<function_call_wire(item, map, i)>>
      [] item.kind = "LocalShellCall" -> <<local_shell_call_wire(item, map, i)>>
      [] item.kind = "FunctionCallOutput" -> <<function_call_output_wire(item)>>
      [] item.kind = "CustomToolCall" -> <<custom_tool_call_wire(item)>>
      [] item.kind = "CustomToolCallOutput" -> <<custom_tool_call_output_wire(item)>>
      [] OTHER -> <<>>

\* variant: a Reasoning item pushes its text as an assistant message
pushed_reasoning_message(item, map, i, last_text) ==
    CASE item.kind = "Message" ->
            IF is_duplicate(item, last_text) THEN <<>> ELSE <<message_wire(item, map, i)>>
      [] item.kind = "FunctionCall" -> <<function_call_wire(item, map, i)>>
      [] item.kind = "LocalShellCall" -> <<local_shell_call_wire(item, map, i)>>
      [] item.kind = "FunctionCallOutput" -> <<function_call_output_wire(item)>>
      [] item.kind = "CustomToolCall" -> <<custom_tool_call_wire(item)>>
      [] item.kind = "CustomToolCallOutput" -> <<custom_tool_call_output_wire(item)>>
      [] item.kind = "Reasoning" ->
            <<[role |-> "assistant", content |-> JStr(reasoning_text(item))]>>
      [] OTHER -> <<>>

\* the wire messages the item at position i pushes: one or none
pushed(item, map, i, last_text) ==
    CASE item.kind = "Message" ->
            IF is_duplicate(item, last_text) THEN <<>> ELSE <<message_wire(item, map, i)>>
      [] item.kind = "FunctionCall" -> <<function_call_wire(item, map, i)>>
      [] item.kind = "LocalShellCall" -> <<local_shell_call_wire(item, map, i)>>
      [] item.kind = "FunctionCallOutput" -> <<function_call_output_wire(item)>>
      [] item.kind = "CustomToolCall" -> <<custom_tool_call_wire(item)>>
      [] item.kind = "CustomToolCallOutput" -> <<custom_tool_call_output_wire(item)>>
      [] item.kind \in {"GhostSnapshot", "Reasoning", "WebSearchCall", "Other",
                        "Compaction"} -> <<>>

----------------------------------------------------------------------------
(* Payload *)


\* variant: clear_thinking is set
attach_reasoning_controls_clearing(obj) ==
    Insert(Insert(Insert(Insert(obj,
        "reasoning", [enabled |-> TRUE]),
        "reasoning_split", TRUE),
        "thinking", [type |-> "enabled", clear_thinking |-> TRUE]),
        "chat_template_kwargs", [thinking |-> TRUE])

attach_reasoning_controls(obj) ==
    Insert(Insert(Insert(Insert(obj,
        "reasoning", [enabled |-> TRUE]),
        "reasoning_split", TRUE),
        "thinking", [type |-> "enabled", clear_thinking |-> FALSE]),
        "chat_template_kwargs", [thinking |-> TRUE])

\* self.model and self.tools: carried through as they are
Model == "gpt-test"
Tools == <<>>
Instructions == <<"inst">>

base_payload(msgs) ==
    [model |-> Model, messages |-> msgs, stream |-> TRUE, tools |-> Tools]

----------------------------------------------------------------------------
(* Input histories *)

UserHi     == Message("user", <<InputText(<<"hi">>)>>)
UserImage  == Message("user", <<InputText(<<"hi">>), InputImage("img")>>)
AsstA      == Message("assistant", <<OutputText(<<"a">>)>>)
AsstB      == Message("assistant", <<OutputText(<<"b">>)>>)
\* two parts whose joined text is that of AsstA
AsstSplitA == Message("assistant", <<OutputText(<<>>), OutputText(<<"a">>)>>)
FnCall     == FunctionCall("f", "{}", "call-1")
ShellCall  == LocalShellCall(None, "completed", "exec")
FnOutput   == FunctionCallOutput("call-1", [content |-> <<"ok">>, content_items |-> None])
FnOutputItems ==
    FunctionCallOutput("call-1",
        [content |-> <<"ok">>, content_items |-> Some(<<InputText(<<"ok">>)>>)])
CustomCall   == CustomToolCall("c-1", "tool", "in")
CustomOutput == CustomToolCallOutput("c-1", <<"out">>)

ReasonBecause == Reasoning(Some(<<<<"because">>>>), None, None)
ReasonBlank   == Reasoning(Some(<<<<Space>>>>), None, Some("ReasoningContent"))
ReasonDetails == Reasoning(None, Some("d1"), None)
\* text x or y, no details, every source tag
ReasonTagged ==
    {Reasoning(Some(<<<<"x">>>>), None, None),
     Reasoning(Some(<<<<"y">>>>), None, Some("Reasoning")),
     Reasoning(Some(<<<<"x">>, <<"x">>>>), None, Some("ReasoningContent")),
     Reasoning(Some(<<<<"y">>>>), None, Some("ReasoningDetails"))}

\* histories that exercise the anchoring rules and the duplicate suppression
AnchorItems ==
    {UserHi, AsstA, AsstB, FnCall, ShellCall, FnOutput, ReasonBecause, ReasonDetails}
\* histories that hold every kind of item
KindItems ==
    {UserHi, UserImage, AsstA, AsstSplitA, FnCall, ShellCall, FnOutputItems, CustomCall,
     CustomOutput, ReasonBecause, WebSearchCall, GhostSnapshot, Compaction, Other}
\* histories that merge Reasoning items of every source tag
TagItems ==
    {AsstA, FnCall, ReasonBlank, ReasonDetails,
     Reasoning(Some(<<<<"y">>>>), Some("d2"), Some("ReasoningContent"))} \cup ReasonTagged

SeqsUpTo(S, n) == UNION {[1..k -> S] : k \in 0..n}

Histories ==
    SeqsUpTo(AnchorItems, MaxLen) \cup SeqsUpTo(KindItems, MaxLenWide)
        \cup SeqsUpTo(TagItems, MaxLenWide)

----------------------------------------------------------------------------
(* build(), one pass or one loop iteration per step *)

EmptyMap == [a \in {} |-> None]

Init ==
    /\ input \in Histories
    /\ enable_reasoning \in BOOLEAN
    /\ pc = "new"
    /\ idx = 1
    /\ last_emitted_role = None
    /\ last_user_index = None
    /\ reasoning_by_anchor_index = EmptyMap
    /\ absorbed = EmptyMap
    /\ last_assistant_text = None
    /\ messages = <<>>
    /\ origin = <<>>
    /\ payload = None

\* where build() goes once a loop over the input has handled position i
AfterItem(i, loop, after) ==
    IF i >= Len(input)
    THEN pc' = after /\ idx' = 1
    ELSE pc' = loop /\ idx' = i + 1

\* the system message and the Role Tracker loop
TrackRole ==
    /\ pc = "new"
    /\ messages' = <<[role |-> "system", content |-> JStr(Instructions)]>>
    /\ origin' = <<0>>
    /\ last_emitted_role' = LastEmittedRole(input)
    /\ pc' = "last_user"
    /\ UNCHANGED <<input, enable_reasoning, idx, last_user_index,
                   reasoning_by_anchor_index, absorbed, last_assistant_text, payload>>

\* the loop that finds the last user Message
FindLastUser ==
    /\ pc = "last_user"
    /\ last_user_index' = LastUserIndex(input)
    /\ AfterItem(0, "resolve", "finalize")
    /\ UNCHANGED <<input, enable_reasoning, last_emitted_role, reasoning_by_anchor_index,
                   absorbed, last_assistant_text, messages, origin, payload>>

\* one iteration of the Reasoning Resolver loop (no iteration changes anything
\* when the tracked role is user: the code then skips the loop)
ResolveStep ==
    /\ pc = "resolve"
    /\ LET item == input[idx]
           a    == anchor_index(input, idx)
       IN  IF /\ examined(last_emitted_role, last_user_index, idx)
              /\ IsReasoning(item)
              /\ ~nothing_to_attach(item)
              /\ IsSome(a)
           THEN /\ reasoning_by_anchor_index' =
                       entry_merge(reasoning_by_anchor_index, Unwrap(a),
                                   new_attachment(item))
                /\ absorbed' =
                       IF Unwrap(a) \in DOMAIN absorbed
                       THEN [absorbed EXCEPT ![Unwrap(a)] = Append(@, idx)]
                       ELSE (Unwrap(a) :> <<idx>>) @@ absorbed
           ELSE UNCHANGED <<reasoning_by_anchor_index, absorbed>>
    /\ AfterItem(idx, "resolve", "assemble")
    /\ UNCHANGED <<input, enable_reasoning, last_emitted_role, last_user_index,
                   last_assistant_text, messages, origin, payload>>

\* one iteration of the Message Assembler loop
AssembleStep ==
    /\ pc = "assemble"
    /\ LET item == input[idx]
           out  == pushed(item, reasoning_by_anchor_index, idx, last_assistant_text)
       IN  /\ messages' = messages \o out
           /\ origin' = origin \o [k \in 1..Len(out) |-> idx]
           /\ last_assistant_text' = next_last_assistant_text(item, last_assistant_text)
    /\ AfterItem(idx, "assemble", "finalize")
    /\ UNCHANGED <<input, enable_reasoning, last_emitted_role, last_user_index,
                   reasoning_by_anchor_index, absorbed, payload>>

\* the payload, with the reasoning controls when enabled
Finalize ==
    /\ pc = "finalize"
    /\ payload' = Some(IF enable_reasoning
                       THEN attach_reasoning_controls(base_payload(messages))
                       ELSE base_payload(messages))
    /\ pc' = "done"
    /\ UNCHANGED <<input, enable_reasoning, idx, last_emitted_role, last_user_index,
                   reasoning_by_anchor_index, absorbed, last_assistant_text, messages,
                   origin>>

Next == TrackRole \/ FindLastUser \/ ResolveStep \/ AssembleStep \/ Finalize

Spec == Init /\ [][Next]_vars

TypeOK ==
    /\ pc \in {"new", "last_user", "resolve", "assemble", "finalize", "done"}
    /\ Len(messages) = Len(origin)
    /\ DOMAIN absorbed = DOMAIN reasoning_by_anchor_index

----------------------------------------------------------------------------
(* Vocabulary of the properties *)

Positions == 1..Len(input)

\* the resolver loop has run to its end
Resolved == pc \in {"assemble", "finalize", "done"}

\* the role of the last turn: a Message gives its role, a FunctionCall or
\* LocalShellCall assistant, a FunctionCallOutput tool, every other kind nothing
TurnRole(it) ==
    IF it.kind = "Message" THEN Some(it.role)
    ELSE IF it.kind \in {"FunctionCall", "LocalShellCall"} THEN Some("assistant")
    ELSE IF it.kind = "FunctionCallOutput" THEN Some("tool")
    ELSE None

TrackedLastRole ==
    LET turns == {i \in Positions : IsSome(TurnRole(input[i]))}
    IN  IF turns = {} THEN None
        ELSE TurnRole(input[CHOOSE i \in turns : \A k \in turns : k <= i])

\* position i lies strictly after the last user Message
AfterLastUser(i) == \A k \in Positions : IsUserMsg(input[k]) => k < i

\* a Reasoning item the resolver has to place: after the last user Message,
\* with non-blank text or a details blob, the tracked last role not user
TrailingReasoning(i) ==
    /\ IsReasoning(input[i])
    /\ ~TrimIsEmpty(reasoning_text(input[i])) \/ IsSome(input[i].reasoning_details)
    /\ AfterLastUser(i)
    /\ TrackedLastRole # Some("user")

PrecededByAssistant(i) == i > 1 /\ IsAssistantMsg(input[i - 1])

FollowedByAnchor(i) ==
    /\ i < Len(input)
    /\ \/ input[i + 1].kind \in {"FunctionCall", "LocalShellCall"}
       \/ IsAssistantMsg(input[i + 1])

\* the Reasoning positions merged into anchor a
AbsorbedBy(a) == IF a \in DOMAIN absorbed THEN absorbed[a] ELSE <<>>

InSeq(x, s) == \E k \in 1..Len(s) : s[k] = x

\* the wire messages pushed by the item at position p
WiresOf(p) == {k \in 1..Len(messages) : origin[k] = p}
Emitted(p) == WiresOf(p) # {}
WireOf(p)  == messages[CHOOSE k \in WiresOf(p) : TRUE]

ReasoningKeys == {"reasoning", "reasoning_content", "reasoning_details"}

\* t occurs in s as a run of consecutive tokens
Contains(s, t) ==
    \E k \in 0..(Len(s) - Len(t)) : SubSeq(s, k + 1, k + Len(t)) = t

----------------------------------------------------------------------------
(* C1: a Reasoning item to place that has an assistant Message right before
   it and a FunctionCall, LocalShellCall or assistant Message right after it
   is merged into the preceding position only; an item is merged into the
   following position only when no assistant Message precedes it. *)
C1_PrecedingAnchorWins ==
    Resolved =>
        \A i \in Positions :
            TrailingReasoning(i) =>
                /\ (PrecededByAssistant(i) /\ FollowedByAnchor(i)) =>
                        /\ InSeq(i, AbsorbedBy(i - 1))
                        /\ ~InSeq(i, AbsorbedBy(i + 1))
                /\ InSeq(i, AbsorbedBy(i + 1)) => ~PrecededByAssistant(i)

C1_Witness ==
    /\ pc = "done"
    /\ \E i \in Positions :
          TrailingReasoning(i) /\ PrecededByAssistant(i) /\ FollowedByAnchor(i)

----------------------------------------------------------------------------
\* the history [user hi, assistant a, reasoning because, functioncall f]
Fixture == <<UserHi, AsstA, ReasonBecause, FnCall>>

(* C2 as stated: for the history [user hi, assistant a, reasoning because,
   functioncall f] the text "because" is on the FunctionCall's wire message
   under the reasoning key and not on the assistant message's. *)
C2_ReasoningOnFunctionCall ==
    (pc = "done" /\ input = Fixture) =>
        /\ "reasoning" \in DOMAIN WireOf(4)
        /\ WireOf(4)["reasoning"] = JStr(<<"because">>)
        /\ "reasoning" \notin DOMAIN WireOf(2)

(* C2 amended: for that history the text "because" is on the assistant
   message's wire message under the reasoning key, and the FunctionCall's
   wire message carries no reasoning field. *)
C2_ReasoningOnAssistant ==
    (pc = "done" /\ input = Fixture) =>
        /\ DOMAIN WireOf(2) \cap ReasoningKeys = {"reasoning"}
        /\ WireOf(2)["reasoning"] = JStr(<<"because">>)
        /\ DOMAIN WireOf(4) \cap ReasoningKeys = {}

C2_Witness ==
    /\ pc = "done"
    /\ input = Fixture
    /\ last_emitted_role = Some("assistant")
    /\ Len(messages) = 4

----------------------------------------------------------------------------
(* C3: when the tracked last role is user, the reasoning mapping is empty and
   no wire message carries reasoning, reasoning_content or reasoning_details;
   the tracked role is that of the last Message, FunctionCall, LocalShellCall
   or FunctionCallOutput, every other kind being transparent. *)
C3_UserTurnNoReasoning ==
    /\ pc # "new" => last_emitted_role = TrackedLastRole
    /\ TrackedLastRole = Some("user") =>
          /\ DOMAIN reasoning_by_anchor_index = {}
          /\ \A k \in 1..Len(messages) : DOMAIN messages[k] \cap ReasoningKeys = {}

C3_Witness ==
    /\ pc = "done"
    /\ TrackedLastRole = Some("user")
    /\ \E i \in Positions :
          /\ IsReasoning(input[i])
          /\ ~nothing_to_attach(input[i])
          /\ PrecededByAssistant(i)
          /\ Emitted(i - 1)

----------------------------------------------------------------------------
(* C4 as stated: the non-empty text of a Reasoning item to place that comes
   right after an assistant Message is on that Message's wire message, under
   reasoning_content when the attachment's source tag is ReasoningContent and
   under reasoning otherwise. *)
C4_TextOnAssistantWire ==
    pc = "done" =>
        \A i \in Positions :
            (/\ TrailingReasoning(i)
             /\ PrecededByAssistant(i)
             /\ reasoning_text(input[i]) # <<>>) =>
                /\ Emitted(i - 1)
                /\ (i - 1) \in DOMAIN reasoning_by_anchor_index
                /\ LET key == IF reasoning_by_anchor_index[i - 1].source
                                     = Some("ReasoningContent")
                              THEN "reasoning_content" ELSE "reasoning"
                   IN  /\ key \in DOMAIN WireOf(i - 1)
                       /\ Contains(WireOf(i - 1)[key].v, reasoning_text(input[i]))

----------------------------------------------------------------------------
\* the order of the source tags: plain reasoning < content stream < details
TagPriority(tag) ==
    IF tag = "Reasoning" THEN 1 ELSE IF tag = "ReasoningContent" THEN 2 ELSE 3

\* the tag two merged attachments end with, the first scanned being t1
MergedTag(t1, t2) ==
    IF t2 = None THEN t1
    ELSE IF t1 = None THEN t2
    ELSE IF TagPriority(Unwrap(t2)) > TagPriority(Unwrap(t1)) THEN t2
    ELSE t1

(* C5: when two Reasoning items are merged into one anchor, the text of the
   attachment is the text of the one scanned first followed by the text of
   the other, and its source tag is the higher of the two tags (plain <
   content stream < details); an absent tag never replaces a tag, and any
   tag replaces an absent one. *)
C5_MergeTwo ==
    Resolved =>
        \A a \in DOMAIN absorbed :
            Len(absorbed[a]) = 2 =>
                LET first  == new_attachment(input[absorbed[a][1]])
                    second == new_attachment(input[absorbed[a][2]])
                    merged == reasoning_by_anchor_index[a]
                IN  /\ absorbed[a][1] < absorbed[a][2]
                    /\ merged.text = first.text \o second.text
                    /\ merged.source = MergedTag(first.source, second.source)

C5_Witness ==
    /\ pc = "done"
    /\ \E a \in DOMAIN absorbed :
          /\ Len(absorbed[a]) = 2
          /\ LET first  == new_attachment(input[absorbed[a][1]])
                 second == new_attachment(input[absorbed[a][2]])
             IN  /\ first.text # <<>> /\ second.text # <<>>
                 /\ first.text # second.text
                 /\ IsSome(first.source) /\ IsSome(second.source)
                 /\ TagPriority(Unwrap(first.source)) > TagPriority(Unwrap(second.source))
                 /\ reasoning_by_anchor_index[a].source = first.source

----------------------------------------------------------------------------
(* C6 as stated: the messages array holds no more wire messages than the
   history holds items. *)
C6_NoMoreMessagesThanItems ==
    pc = "done" => Len(messages) <= Len(input)

(* C6 amended: the messages array starts with the system message, and the
   wire messages after it are no more than the history items. *)
C6_NoMoreMessagesThanItemsPlusSystem ==
    pc # "new" =>
        /\ Len(messages) >= 1
        /\ messages[1].role = "system"
        /\ Len(messages) - 1 <= Len(input)
        /\ pc = "assemble" => Len(messages) - 1 <= idx - 1

C6_Witness ==
    /\ pc = "done"
    /\ Len(input) = 3
    /\ Len(messages) = 2

----------------------------------------------------------------------------
\* the assistant Messages before position i that were emitted
EmittedAssistantsBefore(i) ==
    {j \in 1..(i - 1) : IsAssistantMsg(input[j]) /\ Emitted(j)}

\* the text of the last assistant Message emitted before position i
LastEmittedTextBefore(i) ==
    LET E == EmittedAssistantsBefore(i)
    IN  IF E = {} THEN None
        ELSE Some(message_text(input[CHOOSE j \in E : \A k \in E : k <= j].content))

\* the assembler is at or past position i
AssembledUpTo == IF pc = "assemble" THEN idx - 1
                 ELSE IF pc \in {"finalize", "done"} THEN Len(input) ELSE 0

(* C7: an assistant Message is dropped if and only if its joined text equals
   the text of the last assistant Message emitted before it, whatever items
   lie between the two, and the tracked text is that of the last emitted
   assistant Message. *)
C7_DuplicateSuppression ==
    /\ \A i \in 1..AssembledUpTo :
          IsAssistantMsg(input[i]) =>
              (~Emitted(i) <=>
                  LastEmittedTextBefore(i) = Some(message_text(input[i].content)))
    /\ pc \in {"assemble", "finalize", "done"} =>
          last_assistant_text = LastEmittedTextBefore(AssembledUpTo + 1)

C7_Witness ==
    /\ pc = "done"
    /\ \E i, j \in Positions :
          /\ j + 1 < i
          /\ IsAssistantMsg(input[i]) /\ IsAssistantMsg(input[j])
          /\ ~IsAssistantMsg(input[j + 1])
          /\ Emitted(j) /\ ~Emitted(i)
    /\ \E i, j \in Positions :
          /\ j < i
          /\ IsAssistantMsg(input[i]) /\ IsAssistantMsg(input[j])
          /\ Emitted(j) /\ Emitted(i)

----------------------------------------------------------------------------
SilentKinds == {"Reasoning", "WebSearchCall", "GhostSnapshot", "Compaction", "Other"}

\* the wire message has the shape of the item's kind
ShapeFits(msg, it) ==
    CASE it.kind = "Message" -> msg.role = it.role
      [] it.kind = "FunctionCall" ->
            msg.role = "assistant" /\ msg.tool_calls[1].type = "function"
      [] it.kind = "LocalShellCall" ->
            msg.role = "assistant" /\ msg.tool_calls[1].type = "local_shell_call"
      [] it.kind = "CustomToolCall" ->
            msg.role = "assistant" /\ msg.tool_calls[1].type = "custom"
      [] it.kind \in {"FunctionCallOutput", "CustomToolCallOutput"} ->
            msg.role = "tool" /\ msg.tool_call_id = it.call_id
      [] OTHER -> FALSE

(* C8: after the system message, the wire messages come from strictly
   increasing history positions (so each item yields at most one, in the
   order of the history), each has the shape of the item it comes from, and
   none comes from a Reasoning, WebSearchCall, GhostSnapshot, Compaction or
   Other item. *)
C8_OrderPreserved ==
    /\ Len(origin) = Len(messages)
    /\ \A k \in 1..Len(messages) :
          IF k = 1 THEN origin[k] = 0 /\ messages[k].role = "system"
          ELSE /\ origin[k] \in Positions
               /\ origin[k - 1] < origin[k]
               /\ input[origin[k]].kind \notin SilentKinds
               /\ ShapeFits(messages[k], input[origin[k]])

C8_Witness ==
    /\ pc = "done"
    /\ Len(messages) = 3
    /\ input[1].kind \in SilentKinds \ {"Reasoning"}
    /\ input[2].kind # "Message" /\ Emitted(2)
    /\ Emitted(3)

----------------------------------------------------------------------------
BaseKeys == {"model", "messages", "stream", "tools"}
ControlKeys == {"reasoning", "reasoning_split", "thinking", "chat_template_kwargs"}

(* C9: with reasoning enabled the payload holds, beyond model, messages,
   stream and tools, exactly reasoning = {enabled: true}, reasoning_split =
   true, thinking = {type: enabled, clear_thinking: false} and
   chat_template_kwargs = {thinking: true}; with reasoning disabled its keys
   are exactly model, messages, stream and tools; stream is true and messages
   is the assembled array either way. *)
C9_ReasoningControls ==
    pc = "done" =>
        /\ IsSome(payload)
        /\ LET p == Unwrap(payload)
           IN  /\ p.stream = TRUE
               /\ p.messages = messages
               /\ p.model = Model
               /\ p.tools = Tools
               /\ IF enable_reasoning
                  THEN /\ DOMAIN p = BaseKeys \cup ControlKeys
                       /\ p.reasoning = [enabled |-> TRUE]
                       /\ p.reasoning_split = TRUE
                       /\ p.thinking = [type |-> "enabled", clear_thinking |-> FALSE]
                       /\ p.chat_template_kwargs = [thinking |-> TRUE]
                  ELSE DOMAIN p = BaseKeys

C9_Witness ==
    /\ pc = "done"
    /\ enable_reasoning
    /\ Len(messages) = 4
    /\ \E k \in 1..Len(messages) : "reasoning" \in DOMAIN messages[k]

----------------------------------------------------------------------------
(* C10: every key of the reasoning mapping is a position after the last user
   Message that holds an assistant Message, FunctionCall or LocalShellCall;
   it absorbs only the Reasoning items next to it, so at most two (the one
   before it by the following-item rule, the one after it by the
   preceding-assistant rule), and a FunctionCall or LocalShellCall absorbs
   only the one before it; a Reasoning item between two Reasoning items is
   absorbed nowhere. *)
C10_AdjacentAnchorsOnly ==
    /\ DOMAIN absorbed = DOMAIN reasoning_by_anchor_index
    /\ \A a \in DOMAIN reasoning_by_anchor_index :
          /\ a \in Positions
          /\ AfterLastUser(a)
          /\ \/ IsAssistantMsg(input[a])
             \/ input[a].kind \in {"FunctionCall", "LocalShellCall"}
          /\ Len(absorbed[a]) \in 1..2
          /\ \A k \in 1..Len(absorbed[a]) :
                /\ absorbed[a][k] \in {a - 1, a + 1} \cap Positions
                /\ IsReasoning(input[absorbed[a][k]])
          /\ Len(absorbed[a]) = 2 => absorbed[a] = <<a - 1, a + 1>>
          /\ input[a].kind \in {"FunctionCall", "LocalShellCall"} =>
                absorbed[a] = <<a - 1>>
    /\ \A i \in Positions :
          (/\ i > 1 /\ i < Len(input)
           /\ IsReasoning(input[i - 1]) /\ IsReasoning(input[i])
           /\ IsReasoning(input[i + 1])) =>
              \A a \in DOMAIN absorbed : ~InSeq(i, absorbed[a])

C10_Witness ==
    /\ pc = "done"
    /\ \E a \in DOMAIN absorbed :
          /\ Len(absorbed[a]) = 2
          /\ a + 2 \in Positions
          /\ IsReasoning(input[a + 2])
          /\ ~nothing_to_attach(input[a + 2])

====
